---- MODULE Spec2Model ----
(***************************************************************************)
(* Model of scripts/sync.js of JJ's Catalog: the vendor feed is mapped to  *)
(* catalog items, the items' images are mirrored by a pool of workers and  *)
(* the catalog is written to public/inventory.json.                        *)
(*                                                                         *)
(* Strings are sequences of one-character strings, so that the regular     *)
(* expressions, trim(), replace() and the URL handling of the scripts are  *)
(* computed character by character.                                        *)
(***************************************************************************)
EXTENDS Integers, Sequences, FiniteSets, Bags, TLC

VARIABLES
    feed,       \* the parsed feed: rows of parse(csvText, {columns: true})
    phase,      \* position of run(): start, pool, done, mapped, or the error it ended with
    items,      \* const items = [] of run()
    queue,      \* const queue = [...items], as indexes into items
    wk,         \* the CONCURRENCY workers' positions
    files,      \* the files under public/images
    attempted,  \* let attempted = 0
    saved,      \* saved = 0
    reused,     \* reused = 0
    processed,  \* processed = 0
    out,        \* the contents of public/inventory.json, <<>> before it is written
    runNo,      \* 1 for the first run of the script, 2 for the re-run
    prevOut,    \* public/inventory.json as the previous run left it
    requests,   \* history: the URLs fetch() was called with in this run
    failed,     \* history: the items whose tryFetchImage returned {ok: false}
    writes,     \* history: how often each file name was written in this run
    ovFile,     \* history: data/gender-overrides.json as loadOverrides() read it
    exitCode,   \* the exit code of the process, -1 while it runs
    log,        \* history of the traced runs: the attempts made for each item
    elapsed     \* the traced runs' clock: ms each worker's pending await has lasted

vars == <<feed, phase, items, queue, wk, files, attempted, saved, reused,
          processed, out, runNo, prevOut, requests, failed, writes,
          ovFile, exitCode, log, elapsed>>

----------------------------------------------------------------------------
(* Bounds of the model *)

MaxRows == 2          \* rows of a feed of the mirroring runs
MaxStockRows == 2     \* rows of a feed of the stock runs
MaxStockLen == 2      \* characters of a Current Stock cell
MaxGenderTokens == 3  \* tokens of a Gender cell
MaxOverrideRows == 2  \* rows of a feed of the override runs
MaxRules == 2         \* elements of the list in data/gender-overrides.json
MaxCols == 2          \* image-like columns of a row of the column runs
TicksPerTimeout == 2  \* steps of the clock from the start of an await to its timeout
MaxShareRows == 2     \* rows of a feed of the runs on rows that share a file name
MaxPoolRows == 9      \* rows of a feed of the pool runs, more than the workers

(* Program constants *)

CONCURRENCY == 8
MIN_BYTES == 256
REQ_TIMEOUT_MS == 15000

----------------------------------------------------------------------------
(* Characters and strings *)

LowerLetters == <<"a","b","c","d","e","f","g","h","i","j","k","l","m",
                  "n","o","p","q","r","s","t","u","v","w","x","y","z">>
UpperLetters == <<"A","B","C","D","E","F","G","H","I","J","K","L","M",
                  "N","O","P","Q","R","S","T","U","V","W","X","Y","Z">>
Digit == {"0","1","2","3","4","5","6","7","8","9"}
DigitVal == [c \in Digit |->
               CASE c = "0" -> 0 [] c = "1" -> 1 [] c = "2" -> 2 [] c = "3" -> 3
                 [] c = "4" -> 4 [] c = "5" -> 5 [] c = "6" -> 6 [] c = "7" -> 7
                 [] c = "8" -> 8 [] c = "9" -> 9]
Space == {" ", "\t", "\n"}

Range(s) == {s[i] : i \in DOMAIN s}

\* \w of a JavaScript regular expression
WordChars == Range(LowerLetters) \cup Range(UpperLetters) \cup Digit \cup {"_"}
IsWord(c) == c \in WordChars

\* String.prototype.toLowerCase
LowerOf == [c \in Range(UpperLetters) |->
              LowerLetters[CHOOSE k \in 1..26 : UpperLetters[k] = c]]
toLowerCase(s) == [i \in DOMAIN s |-> IF s[i] \in DOMAIN LowerOf THEN LowerOf[s[i]] ELSE s[i]]

\* String.prototype.trim
trim(s) ==
    LET keep == {i \in DOMAIN s : s[i] \notin Space}
    IN  IF keep = {} THEN <<>>
        ELSE LET lo == CHOOSE i \in keep : \A j \in keep : i <= j
                 hi == CHOOSE i \in keep : \A j \in keep : j <= i
             IN  SubSeq(s, lo, hi)

\* the string w occurs in s at position i
MatchAt(s, i, w) ==
    /\ i >= 1
    /\ i + Len(w) - 1 <= Len(s)
    /\ \A k \in 1..Len(w) : s[i + k - 1] = w[k]

\* String.prototype.includes
includes(s, w) == \E i \in 1..(Len(s) + 1) : MatchAt(s, i, w)

\* String.prototype.startsWith
startsWith(s, w) == MatchAt(s, 1, w)

\* (^|\W) just before position i, (\W|$) at position j
StartOrNonWord(s, i) == i = 1 \/ (i - 1 \in DOMAIN s /\ ~IsWord(s[i - 1]))
NonWordOrEnd(s, j) == j = Len(s) + 1 \/ (j \in DOMAIN s /\ ~IsWord(s[j]))

\* \b between positions i-1 and i
WordAt(s, i) == i \in DOMAIN s /\ IsWord(s[i])
Boundary(s, i) == WordAt(s, i - 1) # WordAt(s, i)

\* /\bw\b/ and /\bw/
BoundedWord(s, w) ==
    \E i \in DOMAIN s : MatchAt(s, i, w) /\ Boundary(s, i) /\ Boundary(s, i + Len(w))
WordStart(s, w) == \E i \in DOMAIN s : MatchAt(s, i, w) /\ Boundary(s, i)

\* /w('?s)?(\W|$)/: the pattern without its leading (^|\W)
PossessiveWordUnanchored(s, w) ==
    \E i \in DOMAIN s :
        /\ MatchAt(s, i, w)
        /\ LET e == i + Len(w)
           IN  \/ NonWordOrEnd(s, e)
               \/ MatchAt(s, e, <<"s">>) /\ NonWordOrEnd(s, e + 1)
               \/ MatchAt(s, e, <<"'","s">>) /\ NonWordOrEnd(s, e + 2)

\* /(^|\W)w('?s)?(\W|$)/
PossessiveWord(s, w) ==
    \E i \in DOMAIN s :
        /\ StartOrNonWord(s, i)
        /\ MatchAt(s, i, w)
        /\ LET e == i + Len(w)
           IN  \/ NonWordOrEnd(s, e)
               \/ MatchAt(s, e, <<"s">>) /\ NonWordOrEnd(s, e + 1)
               \/ MatchAt(s, e, <<"'","s">>) /\ NonWordOrEnd(s, e + 2)

----------------------------------------------------------------------------
(* Column normalisation *)

\* Number(s) for a string s of digits, dots and minus signs: a record
\* [nan, num, den] standing for num/den, den a power of ten
RECURSIVE DigitsValue(_)
DigitsValue(s) ==
    IF s = <<>> THEN 0
    ELSE 10 * DigitsValue(SubSeq(s, 1, Len(s) - 1)) + DigitVal[s[Len(s)]]

RECURSIVE Pow10(_)
Pow10(n) == IF n = 0 THEN 1 ELSE 10 * Pow10(n - 1)

Number(s) ==
    IF s = <<>> THEN [nan |-> FALSE, num |-> 0, den |-> 1]
    ELSE
    LET neg    == s[1] = "-"
        body   == IF neg THEN Tail(s) ELSE s
        dots   == {i \in DOMAIN body : body[i] = "."}
        digits == SelectSeq(body, LAMBDA c : c \in Digit)
        wellFormed == /\ \A i \in DOMAIN body : body[i] # "-"
                      /\ Cardinality(dots) <= 1
                      /\ digits # <<>>
        frac   == IF dots = {} THEN 0
                  ELSE Len(body) - (CHOOSE i \in dots : TRUE)
        mag    == DigitsValue(digits)
    IN  IF ~wellFormed THEN [nan |-> TRUE, num |-> 0, den |-> 1]
        ELSE [nan |-> FALSE, num |-> IF neg THEN 0 - mag ELSE mag, den |-> Pow10(frac)]

\* toNumber(v): the value as the pair num/den
toNumber(v) ==
    LET n == Number(SelectSeq(v, LAMBDA c : c \in Digit \cup {".", "-"}))
    IN  IF ~n.nan THEN [num |-> n.num, den |-> n.den] ELSE [num |-> 0, den |-> 1]

Positive(n) == n.num > 0

MensPattern(s) ==
    PossessiveWord(s, <<"m","e","n">>) \/ BoundedWord(s, <<"m","a","l","e">>) \/ BoundedWord(s, <<"m">>)
WomensPattern(s) ==
    \/ PossessiveWord(s, <<"w","o","m","e","n">>) \/ BoundedWord(s, <<"f","e","m","a","l","e">>)
    \/ BoundedWord(s, <<"w">>) \/ includes(s, <<"l","a","d","i","e","s">>)
UnisexPattern(s) == BoundedWord(s, <<"u","n","i","s","e","x">>) \/ BoundedWord(s, <<"u","n","i">>)
ChildrensPattern(s) ==
    \/ WordStart(s, <<"c","h","i","l","d">>) \/ WordStart(s, <<"k","i","d">>) \/ WordStart(s, <<"b","o","y">>)
    \/ WordStart(s, <<"g","i","r","l">>) \/ WordStart(s, <<"y","o","u","t","h">>) \/ WordStart(s, <<"b","a","b","y">>)
    \/ WordStart(s, <<"c","h","i","l","d","r","e","n">>)
CatchAllPattern(s) ==
    \/ includes(s, <<"s","h","o","p"," ","a","l","l">>) \/ includes(s, <<"a","l","l">>)
    \/ includes(s, <<"m","i","s","c">>) \/ includes(s, <<"o","t","h","e","r">>)

\* rawGender || fallbackCategory || ""
OrElse(a, b) == IF a # <<>> THEN a ELSE b

normalizeGender(rawGender, fallbackCategory) ==
    LET s == toLowerCase(trim(OrElse(rawGender, fallbackCategory)))
    IN  IF MensPattern(s) THEN "MENS"
        ELSE IF WomensPattern(s) THEN "WOMENS"
        ELSE IF UnisexPattern(s) THEN "UNISEX"
        ELSE IF ChildrensPattern(s) THEN "CHILDRENS"
        ELSE IF CatchAllPattern(s) THEN "UNISEX"
        ELSE "UNISEX"

----------------------------------------------------------------------------
(* Feed rows.  A row is the mapping of one CSV line: the six columns the   *)
(* scripts read by name, and cols, the row's remaining columns as          *)
(* <<name, value>> pairs in the order of Object.entries(row).  A missing   *)
(* column and an empty cell are both the empty string (both are falsy).    *)

Row(sku, name, brand, category, gender, stock, cols) ==
    [SKU |-> sku, ProductName |-> name, Brand |-> brand, Category |-> category,
     Gender |-> gender, CurrentStock |-> stock, cols |-> cols]

\* r[key] for a column outside the six named ones
Col(r, key) ==
    IF \E i \in DOMAIN r.cols : r.cols[i][1] = key
    THEN r.cols[CHOOSE i \in DOMAIN r.cols :
                    r.cols[i][1] = key /\ \A j \in DOMAIN r.cols : r.cols[j][1] = key => i <= j][2]
    ELSE <<>>

----------------------------------------------------------------------------
(* Image column detection *)

normalizeUrl(url) ==
    IF url = <<>> THEN <<>>
    ELSE LET u  == trim(url)
             u1 == IF startsWith(u, <<"/","/">>) THEN <<"h","t","t","p","s",":">> \o u ELSE u
             u2 == IF startsWith(u1, <<"h","t","t","p",":","/","/">>)
                   THEN <<"h","t","t","p","s",":","/","/">> \o SubSeq(u1, 8, Len(u1)) ELSE u1
         IN  IF u = <<>> THEN <<>> ELSE u2

\* k.toLowerCase().replace(/[\s_]/g, "")
NormKey(k) == SelectSeq(toLowerCase(k), LAMBDA c : c \notin Space \cup {"_"})

PreferenceOrder == << <<"t","h","u","m","b">>, <<"s","m","a","l","l">>, <<"m","e","d","i","u","m">>, <<"l","a","r","g","e">>, <<"p","r","i","m","a","r","y">>, <<"m","a","i","n">>, <<"b","a","s","e">> >>

\* the choice without the preference order: the first image-like column
pickImageFirstCandidate(row) ==
    LET nonEmpty  == SelectSeq(row.cols, LAMBDA e : trim(e[2]) # <<>>)
        imageLike == SelectSeq(nonEmpty,
                         LAMBDA e : includes(NormKey(e[1]), <<"i","m","a","g","e">>) /\ includes(NormKey(e[1]), <<"u","r","l">>))
    IN  IF imageLike = <<>> THEN <<>> ELSE normalizeUrl(trim(imageLike[1][2]))

pickImageFuzzy(row) ==
    LET nonEmpty  == SelectSeq(row.cols, LAMBDA e : trim(e[2]) # <<>>)
        mapped    == [i \in DOMAIN nonEmpty |->
                         [key |-> nonEmpty[i][1], norm |-> NormKey(nonEmpty[i][1]),
                          value |-> trim(nonEmpty[i][2])]]
        imageLike == SelectSeq(mapped,
                         LAMBDA x : includes(x.norm, <<"i","m","a","g","e">>) /\ includes(x.norm, <<"u","r","l">>))
        hitPrefs  == {p \in DOMAIN PreferenceOrder :
                         \E i \in DOMAIN imageLike : includes(imageLike[i].norm, PreferenceOrder[p])}
        pref      == PreferenceOrder[CHOOSE p \in hitPrefs : \A q \in hitPrefs : p <= q]
    IN  IF imageLike = <<>> THEN <<>>
        ELSE IF hitPrefs # {}
             THEN normalizeUrl(SelectSeq(imageLike, LAMBDA x : includes(x.norm, pref))[1].value)
             ELSE normalizeUrl(imageLike[1].value)

----------------------------------------------------------------------------
(* URLs.  ParseUrl models new URL(url) for http(s) URLs, the only scheme   *)
(* of the model's feeds; a string without that scheme and host is invalid  *)
(* (new URL throws).                                                       *)

\* first position at or after i of a character of set cs, Len(s)+1 if none
RECURSIVE IndexFrom(_, _, _)
IndexFrom(s, i, cs) ==
    IF i > Len(s) THEN Len(s) + 1
    ELSE IF s[i] \in cs THEN i ELSE IndexFrom(s, i + 1, cs)

ParseUrl(url) ==
    LET pre  == IF startsWith(url, <<"h","t","t","p","s",":","/","/">>) THEN 8
                ELSE IF startsWith(url, <<"h","t","t","p",":","/","/">>) THEN 7 ELSE 0
        hEnd == IndexFrom(url, pre + 1, {"/", "?", "#"})
        pEnd == IndexFrom(url, hEnd, {"?", "#"})
    IN  IF pre = 0 \/ hEnd = pre + 1
        THEN [valid |-> FALSE, hostname |-> <<>>, pathname |-> <<>>]
        ELSE [valid |-> TRUE,
              hostname |-> toLowerCase(SubSeq(url, pre + 1, hEnd - 1)),
              pathname |-> IF pEnd = hEnd THEN <<"/">> ELSE SubSeq(url, hEnd, pEnd - 1)]

\* p without its trailing slashes
RECURSIVE StripSlashes(_)
StripSlashes(p) ==
    IF p # <<>> /\ p[Len(p)] = "/" THEN StripSlashes(SubSeq(p, 1, Len(p) - 1)) ELSE p

\* path.extname(path).split("?")[0]
extname(path) ==
    LET p       == StripSlashes(path)
        slashes == {i \in DOMAIN p : p[i] = "/"}
        start   == IF slashes = {} THEN 1
                   ELSE 1 + CHOOSE i \in slashes : \A j \in slashes : j <= i
        base    == SubSeq(p, start, Len(p))
        dots    == {i \in DOMAIN base : base[i] = "."}
        last    == CHOOSE i \in dots : \A j \in dots : j <= i
        ext     == SubSeq(base, last, Len(base))
    IN  IF dots = {} \/ last = 1 \/ base = <<".",".">> THEN <<>>
        ELSE SubSeq(ext, 1, IndexFrom(ext, 1, {"?"}) - 1)

\* contentType is <<>> when the argument is omitted (undefined)
chooseExt(url, contentType) ==
    LET byCT == IF includes(contentType, <<"w","e","b","p">>) THEN <<".","w","e","b","p">>
                ELSE IF includes(contentType, <<"p","n","g">>) THEN <<".","p","n","g">>
                ELSE IF includes(contentType, <<"g","i","f">>) THEN <<".","g","i","f">>
                ELSE <<".","j","p","g">>
        u == ParseUrl(url)
    IN  IF u.valid
        THEN (IF extname(u.pathname) # <<>> THEN extname(u.pathname) ELSE byCT)
        ELSE byCT

\* crypto.createHash("md5").update(url).digest("hex"): the digest of url is
\* the url under the tag "md5", so that distinct urls have distinct digests
\* and no digest is a sanitized SKU
md5(url) == <<"md5">> \o url

\* s.replace(/[^\w.-]+/g, "_")
RECURSIVE Sanitize(_, _)
Sanitize(s, inRun) ==
    IF s = <<>> THEN <<>>
    ELSE IF IsWord(s[1]) \/ s[1] \in {".", "-"}
         THEN <<s[1]>> \o Sanitize(Tail(s), FALSE)
         ELSE (IF inRun THEN <<>> ELSE <<"_">>) \o Sanitize(Tail(s), TRUE)

safeBaseName(url, sku) ==
    IF trim(sku) # <<>> THEN Sanitize(trim(sku), FALSE) ELSE md5(url)

\* /\/(s-[a-z0-9]+)\//i on the path: the store hash m[1], <<>> if no match
StoreHash(p) ==
    LET IsAlnum(c) == IsWord(c) /\ c # "_"
        low    == toLowerCase(p)
        others == {c \in Range(p) : ~IsAlnum(c)}
        starts == {i \in DOMAIN p :
                      /\ MatchAt(low, i, <<"/","s","-">>)
                      /\ LET e == IndexFrom(p, i + 3, others)
                         IN  e > i + 3 /\ e <= Len(p) /\ p[e] = "/"}
        i0 == CHOOSE i \in starts : \A j \in starts : i <= j
    IN  IF starts = {} THEN <<>>
        ELSE SubSeq(p, i0 + 1, IndexFrom(p, i0 + 3, {"/"}) - 1)

\* the profiles with the store's referer pushed after the generic ones
buildHeaderProfilesBcLast(url) ==
    LET u  == ParseUrl(url)
        bc == IF u.valid /\ includes(u.hostname, <<"b","i","g","c","o","m","m","e","r","c","e",".","c","o","m">>) /\ StoreHash(u.pathname) # <<>>
              THEN << [name |-> "bc-store-referer",
                       referer |-> <<"h","t","t","p","s",":","/","/">> \o StoreHash(u.pathname) \o <<".","m","y","b","i","g","c","o","m","m","e","r","c","e",".","c","o","m","/">>] >>
              ELSE <<>>
    IN  << [name |-> "nandansons", referer |-> <<"h","t","t","p","s",":","/","/","w","w","w",".","n","a","n","d","a","n","s","o","n","s",".","c","o","m","/">>],
           [name |-> "generic-ecom", referer |-> <<"h","t","t","p","s",":","/","/","s","t","o","r","e",".","e","x","a","m","p","l","e","/">>],
           [name |-> "no-referer", referer |-> <<>>] >> \o bc

\* the header profiles, as their name and Referer header
buildHeaderProfilesFor(url) ==
    LET u  == ParseUrl(url)
        bc == IF u.valid /\ includes(u.hostname, <<"b","i","g","c","o","m","m","e","r","c","e",".","c","o","m">>) /\ StoreHash(u.pathname) # <<>>
              THEN << [name |-> "bc-store-referer",
                       referer |-> <<"h","t","t","p","s",":","/","/">> \o StoreHash(u.pathname) \o <<".","m","y","b","i","g","c","o","m","m","e","r","c","e",".","c","o","m","/">>] >>
              ELSE <<>>
    IN  bc \o << [name |-> "nandansons", referer |-> <<"h","t","t","p","s",":","/","/","w","w","w",".","n","a","n","d","a","n","s","o","n","s",".","c","o","m","/">>],
                 [name |-> "generic-ecom", referer |-> <<"h","t","t","p","s",":","/","/","s","t","o","r","e",".","e","x","a","m","p","l","e","/">>],
                 [name |-> "no-referer", referer |-> <<>>] >>

OUT_DIR == <<"p","u","b","l","i","c","/","i","m","a","g","e","s">>

\* run(): file, rel for an item with a candidate url
FileOf(it) == safeBaseName(it.remoteImage, it.sku) \o chooseExt(it.remoteImage, <<>>)
RelOf(it) == <<"i","m","a","g","e","s","/">> \o FileOf(it)

----------------------------------------------------------------------------
(* Items *)

\* the loop body skipping a row only if its stock is negative
MirrorItemKeepsZero(r) ==
    LET stock == toNumber(r.CurrentStock)
    IN  IF stock.num < 0 THEN <<>>
        ELSE << [sku |-> trim(r.SKU), name |-> trim(r.ProductName), brand |-> trim(r.Brand),
                 category |-> trim(r.Category),
                 gender |-> normalizeGender(r.Gender, r.Category),
                 qty |-> stock, inStock |-> TRUE,
                 remoteImage |-> pickImageFuzzy(r), image |-> <<>>] >>

\* run(): the loop body building one item, <<>> for a row that is skipped
MirrorItem(r) ==
    LET stock == toNumber(r.CurrentStock)
    IN  IF stock.num <= 0 THEN <<>>
        ELSE << [sku |-> trim(r.SKU), name |-> trim(r.ProductName), brand |-> trim(r.Brand),
                 category |-> trim(r.Category),
                 gender |-> normalizeGender(r.Gender, r.Category),
                 qty |-> stock, inStock |-> TRUE,
                 remoteImage |-> pickImageFuzzy(r), image |-> <<>>] >>

\* the loop with items.unshift(...) for items.push(...)
RECURSIVE BuildItemsReversed(_)
BuildItemsReversed(rows) ==
    IF rows = <<>> THEN <<>>
    ELSE MirrorItem(rows[Len(rows)]) \o BuildItemsReversed(SubSeq(rows, 1, Len(rows) - 1))

\* run(): for (const r of rows) { ... items.push(...) }
RECURSIVE BuildItems(_)
BuildItems(rows) ==
    IF rows = <<>> THEN <<>>
    ELSE BuildItems(SubSeq(rows, 1, Len(rows) - 1)) \o MirrorItem(rows[Len(rows)])

\* the mapping falling back to the remote URL for an item without image
KeepRemote(it) ==
    [sku |-> it.sku, name |-> it.name, brand |-> it.brand, category |-> it.category,
     gender |-> it.gender, qty |-> it.qty, inStock |-> it.inStock,
     image |-> IF it.image = <<>> THEN it.remoteImage ELSE it.image]

\* ({ remoteImage, ...keep }) => keep
Keep(it) == [sku |-> it.sku, name |-> it.name, brand |-> it.brand, category |-> it.category,
             gender |-> it.gender, qty |-> it.qty, inStock |-> it.inStock, image |-> it.image]

----------------------------------------------------------------------------
(* The override-aware variant of the script: gender overrides and mapRow.  *)
(* data/gender-overrides.json is a record [kind, rules]: kind is "missing" *)
(* (readFileSync throws), "invalid" (JSON.parse throws), "notlist" (the    *)
(* JSON value has no map method) or "list"; an element of the list is null,*)
(* a number or an object with the fields sku, name_regex and gender, empty *)
(* where the object has no such field.  A name_regex is a literal pattern, *)
(* so that RegExp.test with the "i" flag is a case-insensitive substring   *)
(* search, or it holds "(", an unterminated group.                         *)

\* new RegExp(pattern, flags) throws a SyntaxError
RegExpThrows(pattern) == "(" \in Range(pattern)

\* the pattern handed to new RegExp: an inline (?i) is cut off
PatternOf(o) ==
    LET source == o.name_regex
        hasInlineCI == startsWith(source, <<"(","?","i",")">>)
    IN  IF hasInlineCI THEN SubSeq(source, 5, Len(source)) ELSE source

\* the callback of arr.map throws for the element o
RuleThrows(o) ==
    \/ o.kind = "null"
    \/ o.kind = "object" /\ o.name_regex # <<>> /\ RegExpThrows(PatternOf(o))

\* loadOverrides(): file is the state of data/gender-overrides.json; every
\* throw is caught and gives []
loadOverrides(file) ==
    IF file.kind # "list" THEN <<>>
    ELSE IF \E i \in DOMAIN file.rules : RuleThrows(file.rules[i]) THEN <<>>
    ELSE [i \in DOMAIN file.rules |->
            LET o == file.rules[i]
            IN  [sku |-> o.sku, gender |-> o.gender,
                 hasRegex |-> o.name_regex # <<>>,
                 regex |-> PatternOf(o)]]

\* applyOverrides that lets the name rules decide before the SKU rules
applyOverridesNameFirst(item, overrides) ==
    LET bySku  == SelectSeq(overrides, LAMBDA o :
                      o.sku # <<>> /\ toLowerCase(trim(o.sku)) = toLowerCase(item.sku))
        byName == SelectSeq(overrides, LAMBDA o :
                      o.hasRegex /\ includes(toLowerCase(item.name), toLowerCase(o.regex)))
    IN  IF item.name # <<>> /\ byName # <<>> /\ byName[1].gender # ""
        THEN byName[1].gender
        ELSE IF item.sku # <<>> /\ bySku # <<>> /\ bySku[1].gender # ""
             THEN bySku[1].gender
             ELSE ""

\* applyOverrides(item, overrides): the forced gender, "" for null
applyOverrides(item, overrides) ==
    LET bySku  == SelectSeq(overrides, LAMBDA o :
                      o.sku # <<>> /\ toLowerCase(trim(o.sku)) = toLowerCase(item.sku))
        byName == SelectSeq(overrides, LAMBDA o :
                      o.hasRegex /\ includes(toLowerCase(item.name), toLowerCase(o.regex)))
    IN  IF item.sku # <<>> /\ bySku # <<>> /\ bySku[1].gender # ""
        THEN bySku[1].gender
        ELSE IF item.name # <<>> /\ byName # <<>> /\ byName[1].gender # ""
             THEN byName[1].gender
             ELSE ""

ImageColumns == << <<"T","h","u","m","b"," ","I","m","a","g","e"," ","U","R","L">>, <<"S","m","a","l","l"," ","I","m","a","g","e"," ","U","R","L">>, <<"M","e","d","i","u","m"," ","I","m","a","g","e"," ","U","R","L">>,
                   <<"L","a","r","g","e"," ","I","m","a","g","e"," ","U","R","L">>, <<"I","m","a","g","e"," ","U","R","L">>, <<"P","r","i","m","a","r","y"," ","I","m","a","g","e"," ","U","R","L">>,
                   <<"I","m","a","g","e">>, <<"i","m","a","g","e","_","u","r","l">> >>

\* pickImage(r): the first non-empty image among the common vendor columns
pickImage(r) ==
    LET present == {k \in DOMAIN ImageColumns : trim(Col(r, ImageColumns[k])) # <<>>}
        url     == trim(Col(r, ImageColumns[CHOOSE k \in present : \A j \in present : k <= j]))
        u1      == IF startsWith(url, <<"/","/">>) THEN <<"h","t","t","p","s",":">> \o url ELSE url
    IN  IF present = {} THEN <<>>
        ELSE IF startsWith(u1, <<"h","t","t","p",":","/","/">>) THEN <<"h","t","t","p","s",":","/","/">> \o SubSeq(u1, 8, Len(u1)) ELSE u1

mapRow(r, overrides) ==
    LET stock == toNumber(r.CurrentStock)
        item  == [sku |-> trim(r.SKU), name |-> trim(r.ProductName), brand |-> trim(r.Brand),
                  category |-> trim(r.Category),
                  gender |-> normalizeGender(r.Gender, r.Category),
                  inStock |-> Positive(stock), qty |-> stock, image |-> pickImage(r)]
        forced == applyOverrides(item, overrides)
    IN  IF forced # "" THEN [item EXCEPT !.gender = forced] ELSE item

----------------------------------------------------------------------------
(* The network and the file system *)

\* what awaiting fetch(url, ...) under withTimeout can give
Responses ==
    {[kind |-> "response", status |-> 403, ct |-> <<"t","e","x","t","/","h","t","m","l">>],
     [kind |-> "response", status |-> 200, ct |-> <<"t","e","x","t","/","h","t","m","l">>],
     [kind |-> "response", status |-> 200, ct |-> <<"i","m","a","g","e","/","w","e","b","p">>],
     [kind |-> "reject"], [kind |-> "timeout"]}

\* what awaiting res.arrayBuffer() under withTimeout can give
Bodies ==
    {[kind |-> "body", size |-> n] : n \in {MIN_BYTES - 1, MIN_BYTES, MIN_BYTES + 1}}
      \cup {[kind |-> "reject"], [kind |-> "timeout"]}

\* res.ok
Ok(res) == res.status >= 200 /\ res.status <= 299

\* fs.existsSync(abs) && fs.statSync(abs).size > 256
Reusable(fs, file) == \E f \in fs : f.name = file /\ f.size > MIN_BYTES

\* fs.writeFileSync(abs, res.buf)
writeFileSync(fs, file, size, url) ==
    {f \in fs : f.name # file} \cup {[name |-> file, size |-> size, src |-> url]}

----------------------------------------------------------------------------
(* The worker pool.  The part of the state the workers change is passed    *)
(* through the operators as the record S.                                  *)

\* a pool started with one worker more
WorkersOneMore == 1..(CONCURRENCY + 1)

\* Array.from({ length: CONCURRENCY }, ...)
Workers == 1..CONCURRENCY
Idle == [st |-> "idle", it |-> 0, prof |-> 0]
Done == [st |-> "done", it |-> 0, prof |-> 0]

Shared ==
    [queue |-> queue, items |-> items, wk |-> wk, attempted |-> attempted,
     saved |-> saved, reused |-> reused, processed |-> processed,
     requests |-> requests, failed |-> failed,
     files |-> files, writes |-> writes]

Becomes(S) ==
    /\ queue' = S.queue /\ items' = S.items /\ wk' = S.wk
    /\ attempted' = S.attempted /\ saved' = S.saved /\ reused' = S.reused
    /\ processed' = S.processed /\ requests' = S.requests
    /\ failed' = S.failed
    /\ files' = S.files /\ writes' = S.writes

\* the worker's loop from `while (queue.length)` up to its next await:
\* items that need no fetch are finished at once
RECURSIVE Drain(_, _)
Drain(S, w) ==
    IF S.queue = <<>> THEN [S EXCEPT !.wk[w] = Done]
    ELSE
    LET i  == Head(S.queue)
        it == S.items[i]
        S1 == [S EXCEPT !.queue = Tail(@)]
    IN  IF it.remoteImage # <<>>
        THEN IF Reusable(S.files, FileOf(it))
             THEN Drain([S1 EXCEPT !.items[i].image = RelOf(it), !.reused = @ + 1,
                                   !.processed = @ + 1], w)
             ELSE [S1 EXCEPT !.attempted = @ + 1,
                             !.wk[w] = [st |-> "resp", it |-> i, prof |-> 1],
                             !.requests = @ \cup {it.remoteImage}]
        ELSE Drain([S1 EXCEPT !.processed = @ + 1], w)

\* Array.from({ length: CONCURRENCY }, async () => ...): the workers are
\* started in turn, each running up to its first await
RECURSIVE StartWorkers(_, _)
StartWorkers(S, w) ==
    IF w \notin Workers THEN S ELSE StartWorkers(Drain(S, w), w + 1)

\* the failed attempt of the last profile leaving the image path on the item
AttemptFailedSetsImage(S, w) ==
    LET i == S.wk[w].it
        profiles == buildHeaderProfilesFor(S.items[i].remoteImage)
    IN  IF S.wk[w].prof < Len(profiles)
        THEN [S EXCEPT !.wk[w] = [st |-> "resp", it |-> i, prof |-> @.prof + 1]]
        ELSE Drain([S EXCEPT !.failed = @ \cup {i}, !.processed = @ + 1,
                             !.items[i].image = RelOf(S.items[i])], w)

\* tryFetchImage: an attempt failed; the next profile, or { ok: false } and
\* the worker goes on after line 209
AttemptFailed(S, w) ==
    LET i == S.wk[w].it
        profiles == buildHeaderProfilesFor(S.items[i].remoteImage)
    IN  IF S.wk[w].prof < Len(profiles)
        THEN [S EXCEPT !.wk[w] = [st |-> "resp", it |-> i, prof |-> @.prof + 1]]
        ELSE Drain([S EXCEPT !.failed = @ \cup {i}, !.processed = @ + 1], w)

\* the store step without saved++
StoredUncounted(S, w, size) ==
    LET i  == S.wk[w].it
        it == S.items[i]
    IN  Drain([S EXCEPT !.files = writeFileSync(@, FileOf(it), size, it.remoteImage),
                        !.writes = @ (+) SetToBag({FileOf(it)}),
                        !.items[i].image = RelOf(it),
                        !.processed = @ + 1], w)

\* run(): if (res.ok) { fs.writeFileSync(abs, res.buf); it.image = rel;
\* saved++; } processed++, and on with the loop
Stored(S, w, size) ==
    LET i  == S.wk[w].it
        it == S.items[i]
    IN  Drain([S EXCEPT !.files = writeFileSync(@, FileOf(it), size, it.remoteImage),
                        !.writes = @ (+) SetToBag({FileOf(it)}),
                        !.items[i].image = RelOf(it), !.saved = @ + 1,
                        !.processed = @ + 1], w)

----------------------------------------------------------------------------
(* Feeds *)

RECURSIVE SeqsUpTo(_, _)
SeqsUpTo(S, n) ==
    IF n = 0 THEN {<<>>}
    ELSE LET shorter == SeqsUpTo(S, n - 1)
         IN  shorter \cup {Append(s, x) : s \in shorter, x \in S}

\* the rows of the mirroring runs: a row with SKU and a signed image URL
\* (a feed may hold it twice), a row without SKU on a BigCommerce CDN, a row
\* out of stock and a row without image
SampleRows ==
    { Row(<<" ","A"," ","1">>, <<"T","e","e">>, <<"A","c","m","e">>, <<"T","o","p","s">>, <<"M","e","n">>, <<"$","1",",","2">>,
          << <<<<"L","a","r","g","e"," ","I","m","a","g","e"," ","U","R","L">>, <<"h","t","t","p","s",":","/","/","x",".","i","o","/","b",".","p","n","g">>>>,
             <<<<"T","h","u","m","b"," ","I","m","a","g","e"," ","U","R","L">>, <<"/","/","x",".","i","o","/","a",".","j","p","g","?","v","=","2">>>> >>),
      Row(<<>>, <<"B","a","g">>, <<>>, <<"W","o","m","e","n","'","s">>, <<>>, <<"3">>,
          << <<<<"i","m","a","g","e","_","u","r","l">>, <<"h","t","t","p",":","/","/","c","d","n",".","b","i","g","c","o","m","m","e","r","c","e",".","c","o","m","/","s","-","5","c","/","p","/","c">>>> >>),
      Row(<<"D","4">>, <<"H","a","t">>, <<"A","c","m","e">>, <<"K","i","d","s">>, <<>>, <<"0">>,
          << <<<<"I","m","a","g","e"," ","U","R","L">>, <<"h","t","t","p","s",":","/","/","x",".","i","o","/","d",".","p","n","g">>>> >>),
      Row(<<"E","5">>, <<"S","o","c","k">>, <<>>, <<>>, <<"u","n","i","s","e","x">>, <<"1",".","5">>, <<>>) }

\* data/gender-overrides.json does not exist
NoFile == [kind |-> "missing", rules |-> <<>>]

\* before the first run: nothing built, public/images empty, no catalog
Quiet ==
    /\ phase = "start"
    /\ items = <<>>
    /\ queue = <<>>
    /\ wk = [w \in Workers |-> Idle]
    /\ files = {}
    /\ attempted = 0 /\ saved = 0 /\ reused = 0 /\ processed = 0
    /\ out = <<>>
    /\ runNo = 1
    /\ prevOut = <<>>
    /\ requests = {} /\ failed = {}
    /\ writes = EmptyBag
    /\ ovFile = NoFile
    /\ exitCode = -1
    /\ log = <<>>
    /\ elapsed = [w \in Workers |-> 0]

Init == feed \in SeqsUpTo(SampleRows, MaxRows) /\ Quiet

----------------------------------------------------------------------------
(* The mirroring script *)

\* run() up to `await Promise.all(workers)`, the feed having been fetched
RunMirror ==
    /\ phase = "start"
    /\ LET its == BuildItems(feed)
           S0  == [Shared EXCEPT !.queue = [i \in 1..Len(its) |-> i], !.items = its]
       IN  Becomes(StartWorkers(S0, 1))
    /\ phase' = "pool"
    /\ UNCHANGED <<feed, out, runNo, prevOut, exitCode, log, elapsed, ovFile>>

\* a run that writes an empty catalog before it exits on the feed's error
RunFeedErrorWritesEmpty ==
    /\ phase = "start"
    /\ phase' = "feedError"
    /\ exitCode' = 1
    /\ out' = <<>>
    /\ UNCHANGED <<feed, items, queue, wk, files, attempted, saved, reused, processed,
                   runNo, prevOut, requests, failed, writes, log, elapsed, ovFile>>

\* getCSV(): the feed answers with a non-success status; run() rejects and
\* the process exits with code 1
RunFeedError ==
    /\ phase = "start"
    /\ phase' = "feedError"
    /\ exitCode' = 1
    /\ UNCHANGED <<feed, items, queue, wk, files, attempted, saved, reused, processed,
                   out, runNo, prevOut, requests, failed, writes, log, elapsed, ovFile>>

\* getCSV(), line 29, without FEED_URL and without data/catalog.csv:
\* fs.readFileSync throws, run() rejects and the process exits with code 1
RunLocalError ==
    /\ phase = "start"
    /\ phase' = "localError"
    /\ exitCode' = 1
    /\ UNCHANGED <<feed, items, queue, wk, files, attempted, saved, reused, processed,
                   out, runNo, prevOut, requests, failed, writes, log, elapsed, ovFile>>

\* tryFetchImage, line 143: the awaited fetch of worker w settles with res
Responded(w, res) ==
    /\ phase = "pool"
    /\ wk[w].st = "resp"
    /\ IF res.kind = "response" /\ Ok(res) /\ includes(toLowerCase(res.ct), <<"i","m","a","g","e">>)
       THEN Becomes([Shared EXCEPT !.wk[w].st = "body"])
       ELSE Becomes(AttemptFailed(Shared, w))
    /\ UNCHANGED <<feed, phase, out, runNo, prevOut, exitCode, ovFile>>

FetchResponse(w, res) == Responded(w, res) /\ UNCHANGED <<log, elapsed>>

\* tryFetchImage, line 147: the awaited body of worker w settles with body;
\* stored tells whether fs.writeFileSync returns or throws
BodyRead(w, body, stored) ==
    /\ phase = "pool"
    /\ wk[w].st = "body"
    /\ IF body.kind = "body" /\ ~(body.size < MIN_BYTES)
       THEN IF stored
            THEN Becomes(Stored(Shared, w, body.size)) /\ UNCHANGED <<phase, exitCode>>
            ELSE /\ phase' = "storeError"
                 /\ exitCode' = 1
                 /\ UNCHANGED <<items, queue, wk, files, attempted, saved, reused, processed,
                                requests, failed, writes>>
       ELSE /\ Becomes(AttemptFailed(Shared, w))
            /\ UNCHANGED <<phase, exitCode>>
    /\ UNCHANGED <<feed, out, runNo, prevOut, ovFile>>

FetchBody(w, body, stored) == BodyRead(w, body, stored) /\ UNCHANGED <<log, elapsed>>

----------------------------------------------------------------------------
(* The traced runs: the same steps, with the attempts of tryFetchImage     *)
(* written to log and the time each await has lasted kept in elapsed.      *)

\* the timer of twice the time for the read of the body
DeadlineBodyDoubled(st) == IF st = "body" THEN 2 * REQ_TIMEOUT_MS ELSE REQ_TIMEOUT_MS

\* withTimeout(promise, ms): the ms of the timer set for the await of the
\* response (st = "resp", line 143) and of the body (st = "body", line 147)
Deadline(st) == REQ_TIMEOUT_MS

TickMs == REQ_TIMEOUT_MS \div TicksPerTimeout

NoBody == [kind |-> "none"]
LogOf(l, i) == IF i \in DOMAIN l THEN l[i] ELSE <<>>

\* time passes for the await of worker w, up to the moment its timer fires
Tick(w) ==
    /\ phase = "pool"
    /\ wk[w].st \in {"resp", "body"}
    /\ elapsed[w] < Deadline(wk[w].st)
    /\ elapsed' = [elapsed EXCEPT ![w] =
                      IF @ + TickMs < Deadline(wk[w].st) THEN @ + TickMs
                      ELSE Deadline(wk[w].st)]
    /\ UNCHANGED <<feed, phase, items, queue, wk, files, attempted, saved, reused,
                   processed, out, runNo, prevOut, requests, failed, writes,
                   ovFile, exitCode, log>>

\* line 143 in a traced run: the timer rejects exactly when the await has
\* lasted Deadline, the fetch settles only before
TimedResponse(w, res) ==
    /\ wk[w].st = "resp"
    /\ (res.kind = "timeout") = (elapsed[w] >= Deadline("resp"))
    /\ Responded(w, res)
    /\ LET i == wk[w].it
           prof == buildHeaderProfilesFor(items[i].remoteImage)[wk[w].prof]
           e == [profile |-> prof.name, res |-> res, body |-> NoBody]
       IN  log' = [j \in DOMAIN log \cup {i} |->
                      IF j = i THEN Append(LogOf(log, i), e) ELSE log[j]]
    /\ elapsed' = [elapsed EXCEPT ![w] = 0]

\* line 147 in a traced run
TimedBody(w, body) ==
    /\ wk[w].st = "body"
    /\ (body.kind = "timeout") = (elapsed[w] >= Deadline("body"))
    /\ BodyRead(w, body, TRUE)
    /\ LET i == wk[w].it
       IN  log' = [log EXCEPT ![i] = [@ EXCEPT ![Len(@)].body = body]]
    /\ elapsed' = [elapsed EXCEPT ![w] = 0]

\* run() after the pool: the catalog is written
Serialize ==
    /\ phase = "pool"
    /\ \A w \in Workers : wk[w].st = "done"
    /\ out' = [i \in DOMAIN items |-> Keep(items[i])]
    /\ phase' = "done"
    /\ exitCode' = 0
    /\ UNCHANGED <<feed, items, queue, wk, files, attempted, saved, reused, processed,
                   runNo, prevOut, requests, failed, writes, log, elapsed, ovFile>>

\* the script is run again on the same feed and the directory it left
Rerun ==
    /\ phase = "done"
    /\ runNo = 1
    /\ runNo' = 2
    /\ prevOut' = out
    /\ phase' = "start"
    /\ items' = <<>> /\ queue' = <<>> /\ wk' = [w \in Workers |-> Idle]
    /\ attempted' = 0 /\ saved' = 0 /\ reused' = 0 /\ processed' = 0
    /\ requests' = {} /\ failed' = {} /\ writes' = EmptyBag
    /\ exitCode' = -1
    /\ UNCHANGED <<feed, files, out, log, elapsed, ovFile>>

Next ==
    \/ RunMirror
    \/ RunFeedError
    \/ RunLocalError
    \/ \E w \in Workers, res \in Responses : FetchResponse(w, res)
    \/ \E w \in Workers, body \in Bodies, stored \in BOOLEAN : FetchBody(w, body, stored)
    \/ Serialize
    \/ Rerun

Spec == Init /\ [][Next]_vars

----------------------------------------------------------------------------
(* The override-aware variant of the script *)

\* an object of the list in data/gender-overrides.json
Rule(sku, name_regex, gender) ==
    [kind |-> "object", sku |-> sku, name_regex |-> name_regex, gender |-> gender]

\* data/gender-overrides.json: missing, or a list with one SKU rule
OverrideFiles ==
    { NoFile, [kind |-> "list", rules |-> << Rule(<<"s","1">>, <<>>, "WOMENS") >>] }

\* run() of the variant: rows.map(r => mapRow(r, overrides)).filter(p => p.inStock)
RunOverrides(file) ==
    /\ phase = "start"
    /\ LET overrides == loadOverrides(file)
           mapped    == [i \in DOMAIN feed |-> mapRow(feed[i], overrides)]
       IN  out' = SelectSeq(mapped, LAMBDA p : p.inStock)
    /\ phase' = "mapped"
    /\ ovFile' = file
    /\ exitCode' = 0
    /\ UNCHANGED <<feed, items, queue, wk, files, attempted, saved, reused, processed,
                   runNo, prevOut, requests, failed, writes, log, elapsed>>

----------------------------------------------------------------------------
(* Runs on feeds that enumerate the Current Stock and the Gender cells *)

StockChars == {"0", "1", "-", ".", "$"}
StockStrings == SeqsUpTo(StockChars, MaxStockLen)
StockRows == {Row(<<"S","1">>, <<"T","e","e">>, <<>>, <<>>, <<>>, stock, <<>>) : stock \in StockStrings}

GenderTokens == { <<"w","o">>, <<"m","e","n">>, <<"f","e">>, <<"m","a","l","e">>, <<"s">>, <<"'">>, <<" ">>, <<"l","a","d","i","e","s">>, <<"k","i","d">>,
                  <<"u","n","i">>, <<"x">>, <<"W","O">> }
RECURSIVE Flatten(_)
Flatten(ss) == IF ss = <<>> THEN <<>> ELSE Head(ss) \o Flatten(Tail(ss))
GenderStrings == {Flatten(ts) : ts \in SeqsUpTo(GenderTokens, MaxGenderTokens)}
GenderRows ==
    {Row(<<"G","1">>, <<"T","e","e">>, <<>>, category, gender, <<"5">>, <<>>) :
        gender \in GenderStrings, category \in {<<>>, <<"M","e","n">>}}

StockInit == feed \in SeqsUpTo(StockRows, MaxStockRows) /\ Quiet
GenderInit == feed \in {<<r>> : r \in GenderRows} /\ Quiet

\* the rows of these feeds have no image column: no worker fetches
RowNext ==
    \/ RunMirror
    \/ Serialize
    \/ \E file \in OverrideFiles : RunOverrides(file)

StockSpec == StockInit /\ [][RowNext]_vars
GenderSpec == GenderInit /\ [][RowNext]_vars

\* the rows of the override runs: SKUs and names that the rules below match
\* or miss, a row out of stock
OverrideRows ==
    { Row(<<" ","S","1">>, <<"T","e","e">>, <<>>, <<>>, <<>>, <<"5">>, <<>>),
      Row(<<"S","1">>, <<"C","a","p">>, <<>>, <<>>, <<"M","e","n">>, <<"2">>, <<>>),
      Row(<<"x","2">>, <<"T","e","e">>, <<>>, <<"W","o","m","e","n">>, <<>>, <<"1">>, <<>>),
      Row(<<>>, <<"C","a","p">>, <<>>, <<"K","i","d","s">>, <<>>, <<"3">>, <<>>),
      Row(<<"x","2">>, <<"T","e","e">>, <<>>, <<>>, <<>>, <<"0">>, <<>>) }

\* the elements of the list: SKU rules (one padded and in upper case, one
\* without gender), name rules (with the inline (?i), with a gender outside
\* the enumeration, with an unterminated group), null and a number
OverrideElems ==
    { Rule(<<"s","1">>, <<>>, "WOMENS"),
      Rule(<<" ","S","1"," ">>, <<>>, "MENS"),
      Rule(<<>>, <<"(","?","i",")","t","e","e">>, "CHILDRENS"),
      Rule(<<>>, <<"T">>, "Ladies"),
      Rule(<<"s","1">>, <<>>, ""),
      Rule(<<>>, <<"(","t","e","e">>, "WOMENS"),
      [kind |-> "null", sku |-> <<>>, name_regex |-> <<>>, gender |-> ""],
      [kind |-> "number", sku |-> <<>>, name_regex |-> <<>>, gender |-> ""] }

\* the states of data/gender-overrides.json
OverrideFileStates ==
    {[kind |-> k, rules |-> <<>>] : k \in {"missing", "invalid", "notlist"}}
      \cup {[kind |-> "list", rules |-> rs] : rs \in SeqsUpTo(OverrideElems, MaxRules)}

OverrideInit == feed \in SeqsUpTo(OverrideRows, MaxOverrideRows) /\ Quiet
OverrideNext == \E file \in OverrideFileStates : RunOverrides(file)
OverrideSpec == OverrideInit /\ [][OverrideNext]_vars

\* the column names of the column runs: with and without a preference
\* token, with and without "image" and "url"
PickNames == { <<"T","h","u","m","b"," ","I","m","a","g","e"," ","U","R","L">>, <<"L","a","r","g","e"," ","I","m","a","g","e"," ","U","R","L">>, <<"i","m","a","g","e","_","u","r","l">>, <<"B","a","s","e","_","I","m","a","g","e"," ","U","r","l">>,
               <<"M","a","i","n"," ","P","h","o","t","o">>, <<"T","h","u","m","b","n","a","i","l">> }
PickValues == { <<"/","/","c","d","n",".","e","x","a","m","p","l","e","/","a",".","j","p","g">>, <<"h","t","t","p","s",":","/","/","c","d","n",".","e","x","a","m","p","l","e","/","b",".","j","p","g">>, <<" ","h","t","t","p",":","/","/","c",".","i","o","/","c">>,
                <<" ">> }
PickCols ==
    {cs \in SeqsUpTo(PickNames \X PickValues, MaxCols) :
        \A i, j \in DOMAIN cs : i # j => cs[i][1] # cs[j][1]}

PickInit ==
    /\ feed \in {<< Row(<<"P","1">>, <<"T","e","e">>, <<>>, <<>>, <<>>, <<"1">>, cs) >> : cs \in PickCols}
    /\ Quiet
PickNext == RunMirror
PickSpec == PickInit /\ [][PickNext]_vars

\* the rows of the traced runs: a plain URL, a BigCommerce CDN URL with a
\* store hash, and one without
FetchRows ==
    { Row(<<"F","1">>, <<"T","e","e">>, <<>>, <<>>, <<>>, <<"1">>, << <<<<"I","m","a","g","e"," ","U","R","L">>, url>> >>) :
        url \in { <<"h","t","t","p","s",":","/","/","x",".","i","o","/","a",".","j","p","g">>, <<"h","t","t","p",":","/","/","c","d","n",".","b","i","g","c","o","m","m","e","r","c","e",".","c","o","m","/","s","-","5","c","/","p","/","c">>,
                  <<"h","t","t","p","s",":","/","/","c","d","n",".","b","i","g","c","o","m","m","e","r","c","e",".","c","o","m","/","p","/","c",".","p","n","g">> } }

FetchInit == feed \in {<<r>> : r \in FetchRows} /\ Quiet
FetchNext ==
    \/ RunMirror
    \/ \E w \in Workers, res \in Responses : TimedResponse(w, res)
    \/ \E w \in Workers, body \in Bodies : TimedBody(w, body)
    \/ \E w \in Workers : Tick(w)
    \/ Serialize
FetchSpec == FetchInit /\ [][FetchNext]_vars

\* the feeds of the pool runs: n rows in stock, each with its own SKU, the
\* first CONCURRENCY + 1 of them with an image, against a host that rejects
\* every fetch of the first image and serves the others at once
PoolLetters == <<"a", "b", "c", "d", "e", "f", "g", "h", "i", "j", "k", "l">>
PoolFeed(n) ==
    [i \in 1..n |->
        Row(<<"P", PoolLetters[i]>>, <<"T","e","e">>, <<>>, <<>>, <<>>, <<"1">>,
            IF i <= CONCURRENCY + 1
            THEN << <<<<"I","m","a","g","e"," ","U","R","L">>, <<"h","t","t","p","s",":","/","/","x",".","i","o","/">> \o <<PoolLetters[i]>> >> >>
            ELSE <<>>)]

PoolAnswer(w) ==
    IF wk[w].it = 1 THEN [kind |-> "reject"]
    ELSE [kind |-> "response", status |-> 200, ct |-> <<"i","m","a","g","e","/","w","e","b","p">>]
PoolBody == [kind |-> "body", size |-> MIN_BYTES + 1]

PoolInit == feed = PoolFeed(MaxPoolRows) /\ Quiet
PoolNext ==
    \/ RunMirror
    \/ \E w \in Workers : TimedResponse(w, PoolAnswer(w))
    \/ \E w \in Workers : TimedBody(w, PoolBody)
    \/ Serialize
PoolSpec == PoolInit /\ [][PoolNext]_vars

\* the rows of the runs on shared file names: two SKUs with one sanitized
\* base name, each with its own image URL
ShareRows ==
    { Row(<<"A"," ","1">>, <<"T","e","e">>, <<>>, <<>>, <<>>, <<"1">>, << <<<<"I","m","a","g","e"," ","U","R","L">>, <<"h","t","t","p","s",":","/","/","x",".","i","o","/","a",".","j","p","g">>>> >>),
      Row(<<"A","_","1">>, <<"C","a","p">>, <<>>, <<>>, <<>>, <<"2">>, << <<<<"I","m","a","g","e"," ","U","R","L">>, <<"h","t","t","p","s",":","/","/","y",".","i","o","/","b",".","j","p","g">>>> >>) }

ShareInit == feed \in SeqsUpTo(ShareRows, MaxShareRows) /\ Quiet
ShareNext ==
    \/ RunMirror
    \/ \E w \in Workers, res \in Responses : FetchResponse(w, res)
    \/ \E w \in Workers, body \in Bodies, stored \in BOOLEAN : FetchBody(w, body, stored)
    \/ Serialize
ShareSpec == ShareInit /\ [][ShareNext]_vars

\* the runs against an image host that answers every direct fetch with 403
Forbidden == [kind |-> "response", status |-> 403, ct |-> <<"t","e","x","t","/","h","t","m","l">>]
ForbiddenNext ==
    \/ RunMirror
    \/ RunFeedError
    \/ \E w \in Workers : FetchResponse(w, Forbidden)
    \/ Serialize
    \/ Rerun

ForbiddenSpec == Init /\ [][ForbiddenNext]_vars

----------------------------------------------------------------------------
(* Properties *)

\* the rows of the feed that are in stock, in feed order
InStockRows == SelectSeq(feed, LAMBDA r : Positive(toNumber(r.CurrentStock)))

\* the catalog has been written by the run in progress
Written == phase \in {"done", "mapped"}

\* the items that take part in the image mirroring
WithCandidate == {i \in DOMAIN items : items[i].remoteImage # <<>>}

\* worker w is between the reuse check and the write of its item
Fetching(w) == wk[w].st \in {"resp", "body"}

\* C1: every item written to public/inventory.json has inStock = true and
\* qty > 0, every mapped row has inStock = (qty > 0), and the written items
\* are exactly the rows whose parsed stock is positive.
C1_InStockOnly ==
    /\ \A i \in DOMAIN items : items[i].inStock /\ items[i].qty.num > 0
    /\ Written =>
          /\ \A i \in DOMAIN out : out[i].inStock = TRUE /\ out[i].qty.num > 0
          /\ Len(out) = Len(InStockRows)
          /\ \A i \in DOMAIN out : out[i].qty = toNumber(InStockRows[i].CurrentStock)
    /\ \A i \in DOMAIN feed : \A file \in OverrideFiles :
          LET p == mapRow(feed[i], loadOverrides(file))
          IN  p.inStock = (p.qty.num > 0)

\* a feed of a row out of stock and a row with a fractional stock was written
C1_Witness ==
    /\ Written /\ Len(feed) = 2 /\ Len(out) = 1
    /\ toNumber(feed[1].CurrentStock).num < 0
    /\ out[1].qty.den > 1

\* C2: when the catalog is serialized every item's image is empty or
\* images/<file> for a file that exists under public/images; it is never the
\* remote URL, and remoteImage is not a field of the persisted item.
C2_LocalImages ==
    phase = "done" =>
        \A i \in DOMAIN out :
            /\ \/ out[i].image = <<>>
               \/ \E f \in files : out[i].image = <<"i","m","a","g","e","s","/">> \o f.name
            /\ ~startsWith(out[i].image, <<"h","t","t","p","s",":","/","/">>)
            /\ "remoteImage" \notin DOMAIN out[i]

\* a catalog of two items with different mirrored images was written
C2_Witness ==
    /\ phase = "done" /\ Len(out) = 2
    /\ out[1].image # <<>> /\ out[2].image # <<>>
    /\ out[1].image # out[2].image

\* C3 (as claimed): in a re-run on the unchanged feed after a run that stored
\* the image of every item with a candidate URL, no image is fetched
\* (attempted = 0) and the output file is identical.
C3_RerunFetchesNothing ==
    (/\ runNo = 2 /\ phase \in {"pool", "done"}
     /\ \A i \in WithCandidate : prevOut[i].image # <<>>)
    => /\ attempted = 0 /\ requests = {}
       /\ phase = "done" => out = prevOut

\* C4: an item whose every fetch attempt failed is persisted with an empty
\* image; the step in which its fetch fails does not end the run, leaves the
\* other workers' fetches in flight and keeps the images already assigned.
C4_FailedItemPersisted ==
    /\ [](phase = "done" =>
            \A i \in failed : /\ i \in DOMAIN out
                               /\ out[i].image = <<>>
                               /\ out[i].sku = items[i].sku /\ out[i].name = items[i].name)
    /\ [][(failed # failed' /\ failed \subseteq failed') =>
            /\ phase' = "pool"
            /\ \A i \in failed' : items'[i].image = <<>>
            /\ \A j \in DOMAIN items : items[j].image # <<>> => items'[j].image = items[j].image
            /\ \A w \in Workers : (Fetching(w) /\ wk[w].it \notin failed') => wk'[w] = wk[w]]_vars

\* the catalog was written with an item with an image before a failed item
C4_Witness ==
    /\ phase = "done" /\ Len(out) = 2
    /\ out[1].image # <<>> /\ saved = 1
    /\ 2 \in failed /\ out[2].image = <<>>

\* C5 (as claimed): against a host that answers 403 under every header
\* profile, while a proxy mirror would serve the image, every item with a
\* candidate URL has its image populated, and the next run fetches nothing.
C5_ProxyFallback ==
    /\ phase = "done" => \A i \in WithCandidate : out[i].image # <<>>
    /\ runNo = 2 => requests = {}

\* url.split("?")[0]
StripQuery(url) == SubSeq(url, 1, IndexFrom(url, 1, {"?"}) - 1)

\* C6 (as claimed): an item's fetch is declared failed only after the URL
\* without its query string was tried, if the URL has a query string.
C6_QueryStripRetry ==
    \A i \in failed :
        includes(items[i].remoteImage, <<"?">>) => StripQuery(items[i].remoteImage) \in requests

\* C7 (as claimed): once the feed is loaded the run can only end by
\* serializing the catalog, with every in-stock item taken from the queue and
\* processed exactly once; no outcome of an item's store step aborts it.
C7_RunCompletes ==
    /\ phase # "storeError"
    /\ phase = "done" =>
          processed = Len(items) /\ queue = <<>> /\ Len(out) = Len(InStockRows)

\* C8: the serialized collection lists the in-stock items in the order of
\* their rows in the feed.
C8_FeedOrder ==
    phase = "done" =>
        /\ Len(out) = Len(InStockRows)
        /\ \A i \in DOMAIN out :
              /\ out[i].sku = trim(InStockRows[i].SKU)
              /\ out[i].name = trim(InStockRows[i].ProductName)

\* two different items were mirrored: the first went through every profile
\* and failed, the second was stored
C8_Witness ==
    /\ phase = "done" /\ Len(out) = 2 /\ out[1].name # out[2].name
    /\ failed = {1} /\ out[2].image # <<>> /\ attempted = 2

\* C9 (as claimed): two distinct items are never at the same time between
\* the reuse check and the write for the same path, and no image file is
\* written more than once in a run.
C9_NoSharedPath ==
    /\ \A w1, w2 \in Workers :
          (w1 # w2 /\ Fetching(w1) /\ Fetching(w2))
              => FileOf(items[wk[w1].it]) # FileOf(items[wk[w2].it])
    /\ \A f \in BagToSet(writes) : CopiesIn(f, writes) <= 1

\* the words of s: its maximal runs of word characters
WordsOf(s) ==
    {SubSeq(s, i, j) : <<i, j>> \in
        {p \in (DOMAIN s) \X (DOMAIN s) :
            /\ p[1] <= p[2]
            /\ \A k \in p[1]..p[2] : IsWord(s[k])
            /\ StartOrNonWord(s, p[1]) /\ NonWordOrEnd(s, p[2] + 1)}}

MensWords == { <<"m","e","n">>, <<"m","e","n","s">>, <<"m","a","l","e">>, <<"m">> }
WomensWords == { <<"w","o","m","e","n">>, <<"w","o","m","e","n","s">>, <<"f","e","m","a","l","e">>, <<"w">> }
UnisexWords == { <<"u","n","i","s","e","x">>, <<"u","n","i">> }
ChildStems == { <<"c","h","i","l","d">>, <<"k","i","d">>, <<"b","o","y">>, <<"g","i","r","l">>, <<"y","o","u","t","h">>, <<"b","a","b","y">> }

\* C10 (as claimed): every gender input that contains women, female or
\* ladies, in any case, is normalized to WOMENS.
C10_SubstringWomens ==
    \A i \in DOMAIN items :
        LET s == toLowerCase(feed[i].Gender)
        IN  (includes(s, <<"w","o","m","e","n">>) \/ includes(s, <<"f","e","m","a","l","e">>) \/ includes(s, <<"l","a","d","i","e","s">>))
                => items[i].gender = "WOMENS"

\* C10 (amended): a gender input none of whose words is men, mens, male or m
\* and which has women, womens, female or w as a word, or contains ladies,
\* is normalized to WOMENS; an input that has none of the taxonomy's words,
\* and an empty input, is normalized to UNISEX.
C10_WordWomens ==
    \A i \in DOMAIN items :
        LET raw == feed[i].Gender
            s   == toLowerCase(trim(raw))
            ws  == WordsOf(s)
        IN  /\ (/\ raw # <<>>
                /\ ws \cap MensWords = {}
                /\ ws \cap WomensWords # {} \/ includes(s, <<"l","a","d","i","e","s">>))
                   => items[i].gender = "WOMENS"
            /\ (/\ raw # <<>>
                /\ ws \cap (MensWords \cup WomensWords \cup UnisexWords) = {}
                /\ ~includes(s, <<"l","a","d","i","e","s">>)
                /\ \A w \in ws : \A c \in ChildStems : ~startsWith(w, c))
                   => items[i].gender = "UNISEX"
            /\ (raw = <<>> /\ feed[i].Category = <<>>) => items[i].gender = "UNISEX"

\* the input WOmens was normalized to WOMENS
C10_Witness ==
    /\ items # <<>>
    /\ feed[1].Gender = <<"W","O","m","e","n","s">>
    /\ items[1].gender = "WOMENS"

\* the enumeration of the gender of a catalog item
Genders == {"MENS", "WOMENS", "UNISEX", "CHILDRENS"}

\* the in-stock rows of the feed next to the items written for them
OutRow(i) == InStockRows[i]

\* C11: every item written to public/inventory.json has a gender among
\* MENS, WOMENS, UNISEX and CHILDRENS, whatever the feed row and whatever
\* data/gender-overrides.json holds.
C11_GenderEnumerated ==
    Written => \A i \in DOMAIN out : out[i].gender \in Genders

\* the file is a list of rules of the documented format: objects with a
\* gender and a SKU or a pattern that compiles
RulesWellFormed(file) ==
    /\ file.kind = "list"
    /\ \A k \in DOMAIN file.rules :
          LET o == file.rules[k]
          IN  /\ o.kind = "object" /\ o.gender # ""
              /\ o.sku # <<>> \/ o.name_regex # <<>>
              /\ ~RegExpThrows(PatternOf(o))

\* the rules of the file whose sku is the SKU, case and padding ignored
SkuHits(file, sku) ==
    {k \in DOMAIN file.rules :
        /\ sku # <<>> /\ file.rules[k].sku # <<>>
        /\ toLowerCase(trim(file.rules[k].sku)) = toLowerCase(sku)}

\* the rules of the file whose pattern is found in the name, case ignored
NameHits(file, name) ==
    {k \in DOMAIN file.rules :
        /\ name # <<>> /\ file.rules[k].name_regex # <<>>
        /\ includes(toLowerCase(name), toLowerCase(PatternOf(file.rules[k])))}

First(S) == CHOOSE k \in S : \A j \in S : k <= j

\* C12: with a well-formed override file, an item whose SKU equals some
\* rule's sku (case ignored) gets the gender of the first such rule, even
\* when a name rule matches too; otherwise an item whose name matches some
\* rule's name_regex gets the gender of the first such rule; otherwise it
\* keeps the gender normalizeGender inferred.
C12_OverridePrecedence ==
    Written /\ RulesWellFormed(ovFile) =>
        \A i \in DOMAIN out :
            LET r == OutRow(i)
                bySku  == SkuHits(ovFile, trim(r.SKU))
                byName == NameHits(ovFile, trim(r.ProductName))
            IN  out[i].gender =
                    IF bySku # {} THEN ovFile.rules[First(bySku)].gender
                    ELSE IF byName # {} THEN ovFile.rules[First(byName)].gender
                    ELSE normalizeGender(r.Gender, r.Category)

\* a name rule stands before a SKU rule in the file, both match the item,
\* and the item got the SKU rule's gender
C12_Witness ==
    /\ Written /\ Len(out) = 1
    /\ ovFile.kind = "list"
    /\ ovFile.rules = << Rule(<<>>, <<"(","?","i",")","t","e","e">>, "CHILDRENS"), Rule(<<"s","1">>, <<>>, "WOMENS") >>
    /\ out[1].sku = <<"S","1">> /\ out[1].name = <<"T","e","e">>
    /\ out[1].gender = "WOMENS"

\* C13: when data/gender-overrides.json is missing or malformed (unreadable,
\* invalid JSON, not a list, or a list holding an invalid rule or pattern)
\* the run is not aborted, loadOverrides returns no override and every item
\* is written with the gender normalizeGender inferred.
C13_MalformedIsZero ==
    Written /\ ~RulesWellFormed(ovFile) =>
        /\ exitCode = 0
        /\ loadOverrides(ovFile) = <<>>
        /\ \A i \in DOMAIN out :
              out[i].gender = normalizeGender(OutRow(i).Gender, OutRow(i).Category)

\* C14: once the feed has answered with a non-success status the process
\* has exit code 1, public/inventory.json is as the previous run left it
\* (absent when there was none), and no image was requested or written.
C14_FeedErrorAborts ==
    phase = "feedError" =>
        /\ exitCode = 1
        /\ out = prevOut
        /\ requests = {} /\ attempted = 0 /\ writes = EmptyBag
        /\ \A w \in Workers : ~Fetching(w)

\* the second run met the feed error and the first run's catalog is there
C14_Witness == phase = "feedError" /\ runNo = 2 /\ out # <<>>

\* C15: a run without a remote feed source takes the feed from the local
\* file and is never aborted by it, whether data/catalog.csv is present,
\* absent or unreadable.
C15_LocalFallbackNeverAborts == phase # "localError"

\* the tokens of the preference order, as the claim lists them
ClaimedTokens == << <<"t","h","u","m","b">>, <<"s","m","a","l","l">>, <<"m","e","d","i","u","m">>, <<"l","a","r","g","e">>, <<"p","r","i","m","a","r","y">>, <<"m","a","i","n">>, <<"b","a","s","e">> >>

\* the column name in lower case without whitespace and underscores
Squeezed(k) == SelectSeq(toLowerCase(k), LAMBDA c : c \notin {" ", "_"})

\* the columns of row r that are candidates: not blank, named image and url
Candidates(r) ==
    {k \in DOMAIN r.cols :
        /\ trim(r.cols[k][2]) # <<>>
        /\ includes(Squeezed(r.cols[k][1]), <<"i","m","a","g","e">>)
        /\ includes(Squeezed(r.cols[k][1]), <<"u","r","l">>)}

\* column k of row r matches the p-th token
HasToken(r, k, p) == includes(Squeezed(r.cols[k][1]), ClaimedTokens[p])

\* column k is the first one matching the highest-priority token that any
\* candidate matches, or the first candidate if none matches a token
Preferred(r, k) ==
    IF \E j \in Candidates(r), q \in DOMAIN ClaimedTokens : HasToken(r, j, q)
    THEN \E p \in DOMAIN ClaimedTokens :
            /\ HasToken(r, k, p)
            /\ \A j \in Candidates(r), q \in DOMAIN ClaimedTokens : HasToken(r, j, q) => p <= q
            /\ \A j \in Candidates(r) : HasToken(r, j, p) => k <= j
    ELSE \A j \in Candidates(r) : k <= j

\* the URL with a leading // or http:// made https://
Https(u) ==
    IF SubSeq(u, 1, 2) = <<"/","/">> THEN <<"h","t","t","p","s",":">> \o u
    ELSE IF SubSeq(u, 1, 7) = <<"h","t","t","p",":","/","/">> THEN <<"h","t","t","p","s",":","/","/">> \o SubSeq(u, 8, Len(u))
    ELSE u

\* C16: the remote image of an item is empty when its row has no candidate
\* column (a non-blank value under a name that, squeezed, contains image
\* and url); otherwise it is the https form of the value of the first
\* column matching the highest-priority token among thumb, small, medium,
\* large, primary, main, base, or of the first candidate when no candidate
\* matches a token.
C16_PickImage ==
    phase = "pool" =>
        \A i \in DOMAIN items :
            LET r == OutRow(i)
            IN  IF Candidates(r) = {} THEN items[i].remoteImage = <<>>
                ELSE \E k \in Candidates(r) :
                        /\ Preferred(r, k)
                        /\ items[i].remoteImage = Https(trim(r.cols[k][2]))

\* the row has a Large Image URL before a protocol-relative Thumb Image URL
\* and the thumb was picked as https://cdn.example/a.jpg
C16_Witness ==
    /\ phase = "pool" /\ Len(items) = 1
    /\ feed[1].cols = << <<<<"L","a","r","g","e"," ","I","m","a","g","e"," ","U","R","L">>, <<"h","t","t","p","s",":","/","/","c","d","n",".","e","x","a","m","p","l","e","/","b",".","j","p","g">>>>,
                         <<<<"T","h","u","m","b"," ","I","m","a","g","e"," ","U","R","L">>, <<"/","/","c","d","n",".","e","x","a","m","p","l","e","/","a",".","j","p","g">>>> >>
    /\ items[1].remoteImage = <<"h","t","t","p","s",":","/","/","c","d","n",".","e","x","a","m","p","l","e","/","a",".","j","p","g">>

\* C17: the qty of every item, built or written, is a non-negative integer.
C17_QtyNonNegativeInteger ==
    /\ \A i \in DOMAIN items :
          items[i].qty.num >= 0 /\ items[i].qty.num % items[i].qty.den = 0
    /\ Written =>
          \A i \in DOMAIN out : out[i].qty.num >= 0 /\ out[i].qty.num % out[i].qty.den = 0

\* the attempt met the three conditions of a successful fetch
Succeeded(e) ==
    /\ e.res.kind = "response" /\ e.res.status \in 200..299
    /\ includes(toLowerCase(e.res.ct), <<"i","m","a","g","e">>)
    /\ e.body.kind = "body" /\ e.body.size >= 256

\* the attempt's response was accepted and its body is being read
BodyPending(e) ==
    /\ e.res.kind = "response" /\ e.res.status \in 200..299
    /\ includes(toLowerCase(e.res.ct), <<"i","m","a","g","e">>)
    /\ e.body = NoBody

AttemptFailedFor(e) == ~Succeeded(e) /\ ~BodyPending(e)

\* the names of the profiles in the order of the attempts
ExpectedProfiles(url) ==
    LET u == ParseUrl(url)
    IN  (IF u.valid /\ includes(u.hostname, <<"b","i","g","c","o","m","m","e","r","c","e",".","c","o","m">>) /\ StoreHash(u.pathname) # <<>>
         THEN <<"bc-store-referer">> ELSE <<>>)
        \o <<"nandansons", "generic-ecom", "no-referer">>

\* the worker that holds item i, 0 if none
Holder(i) == IF \E w \in Workers : Fetching(w) /\ wk[w].it = i
             THEN CHOOSE w \in Workers : Fetching(w) /\ wk[w].it = i
             ELSE 0

\* C18: the attempts made for an item follow the profile order (the store
\* referer first for a BigCommerce CDN URL with a store hash, then
\* nandansons, generic-ecom, no-referer); every attempt but the last one has
\* failed; once tryFetchImage has returned, the image was stored exactly
\* when the last attempt had a successful status, a content type containing
\* image and a body of at least 256 bytes, and the fetch failed exactly when
\* every profile was attempted and none met them.
C18_ProfileSequence ==
    phase \in {"pool", "done"} =>
        \A i \in WithCandidate :
            LET l     == LogOf(log, i)
                names == ExpectedProfiles(items[i].remoteImage)
                w     == Holder(i)
            IN  /\ Len(l) <= Len(names)
                /\ \A k \in DOMAIN l :
                      /\ l[k].profile = names[k]
                      /\ k < Len(l) => AttemptFailedFor(l[k])
                /\ w # 0 /\ wk[w].st = "resp" =>
                      Len(l) = wk[w].prof - 1 /\ \A k \in DOMAIN l : AttemptFailedFor(l[k])
                /\ w # 0 /\ wk[w].st = "body" =>
                      Len(l) = wk[w].prof /\ BodyPending(l[Len(l)])
                /\ w = 0 /\ i \notin Range(queue) =>
                      /\ items[i].image # <<>> <=> l # <<>> /\ Succeeded(l[Len(l)])
                      /\ i \in failed <=>
                            Len(l) = Len(names) /\ \A k \in DOMAIN l : AttemptFailedFor(l[k])
                      /\ items[i].image # <<>> \/ i \in failed

\* the store referer, nandansons and generic-ecom failed in three ways and
\* no-referer brought the image
C18_Witness ==
    /\ phase = "pool" /\ 1 \in DOMAIN log /\ Len(log[1]) = 4
    /\ log[1][1].profile = "bc-store-referer" /\ log[1][1].res.kind = "reject"
    /\ log[1][2].res.kind = "response" /\ log[1][2].res.status = 403
    /\ log[1][3].body.kind = "body" /\ log[1][3].body.size = 255
    /\ log[1][4].profile = "no-referer" /\ Succeeded(log[1][4])
    /\ items[1].image # <<>>

\* the last attempt logged for item i ended with a timeout or a throw
Interrupted(l) ==
    /\ l # <<>>
    /\ \/ l[Len(l)].res.kind \in {"timeout", "reject"}
       \/ l[Len(l)].body.kind \in {"timeout", "reject"}

\* C19: no await of a response or of a body lasts longer than
\* REQ_TIMEOUT_MS, and a step in which an attempt ends with a timeout or a
\* throw aborts nothing: the same worker goes on with the next profile for
\* the same item, or, after the last profile, the item stays in the run
\* without image.
C19_TimeoutBoundsAttempt ==
    [][ /\ \A w \in Workers : elapsed'[w] <= REQ_TIMEOUT_MS
        /\ \A w \in Workers :
              LET i == wk[w].it
              IN  Fetching(w) /\ LogOf(log', i) # LogOf(log, i) /\ Interrupted(LogOf(log', i)) =>
                    /\ phase' = "pool" /\ exitCode' = -1
                    /\ IF wk[w].prof < Len(buildHeaderProfilesFor(items[i].remoteImage))
                       THEN wk'[w] = [st |-> "resp", it |-> i, prof |-> wk[w].prof + 1]
                       ELSE /\ i \in failed' /\ items'[i].image = <<>>
                            /\ ~(Fetching(w)' /\ wk'[w].it = i)
      ]_vars

\* the first attempt timed out waiting for the response, the second while
\* reading the body, and a third one was made
C19_Witness ==
    /\ phase = "pool" /\ 1 \in DOMAIN log /\ Len(log[1]) = 3
    /\ log[1][1].res.kind = "timeout"
    /\ log[1][2].body.kind = "timeout"

\* the items some worker holds between the reuse check and the store
InFlight == {wk[w].it : w \in {v \in Workers : Fetching(v)}}

\* C20: at most CONCURRENCY items are in their mirroring step; no two
\* workers hold the same item; an item is in the queue, or held by one
\* worker, or finished, and never two of these; and no more fetches were
\* attempted for an item than buildHeaderProfilesFor gives profiles for its
\* URL.
C20_BoundedPool ==
    phase = "pool" =>
        /\ Cardinality({w \in Workers : Fetching(w)}) <= CONCURRENCY
        /\ Cardinality(InFlight) <= CONCURRENCY
        /\ \A v, w \in Workers : Fetching(v) /\ Fetching(w) /\ wk[v].it = wk[w].it => v = w
        /\ \A j, k \in DOMAIN queue : queue[j] = queue[k] => j = k
        /\ InFlight \cap Range(queue) = {}
        /\ processed + Cardinality(InFlight) + Len(queue) = Len(items)
        /\ \A i \in DOMAIN items :
              /\ Len(LogOf(log, i)) <= Len(buildHeaderProfilesFor(items[i].remoteImage))
              /\ i \in InFlight \cup Range(queue) => items[i].image = <<>> /\ i \notin failed
              /\ i \in Range(queue) => LogOf(log, i) = <<>>

\* all CONCURRENCY workers hold an item while one more item waits in the
\* queue, and the first item is at its last profile
C20_Witness ==
    /\ phase = "pool"
    /\ Cardinality(InFlight) = CONCURRENCY
    /\ queue # <<>>
    /\ Len(LogOf(log, 1)) = 2

\* every worker has left its loop
PoolCompleted ==
    \/ phase = "done"
    \/ phase = "pool" /\ \A w \in Workers : wk[w].st = "done"

\* C21: in every state saved <= attempted and processed <= the number of
\* in-stock items; when the pool has completed, processed is the number of
\* in-stock items, reused + attempted the number of items with a candidate
\* image URL, and saved + reused the number of items with an image.
C21_CountersAccurate ==
    /\ saved <= attempted
    /\ phase \in {"pool", "done", "storeError"} => processed <= Len(InStockRows)
    /\ PoolCompleted =>
          /\ processed = Len(InStockRows)
          /\ reused + attempted = Cardinality(WithCandidate)
          /\ saved + reused = Cardinality({i \in DOMAIN items : items[i].image # <<>>})
    /\ phase = "done" =>
          saved + reused = Cardinality({i \in DOMAIN out : out[i].image # <<>>})

\* the re-run reused one image and fetched and stored another
C21_Witness ==
    /\ phase = "done" /\ runNo = 2
    /\ reused = 1 /\ attempted = 1 /\ saved = 1 /\ processed = 2

\* the extension the content type names, .jpg if none
ByContentType(ct) ==
    IF includes(ct, <<"w","e","b","p">>) THEN <<".","w","e","b","p">>
    ELSE IF includes(ct, <<"p","n","g">>) THEN <<".","p","n","g">>
    ELSE IF includes(ct, <<"g","i","f">>) THEN <<".","g","i","f">>
    ELSE <<".","j","p","g">>

\* the extension of the path of the URL, <<>> if it has none
PathExt(url) == extname(ParseUrl(url).pathname)

\* C22: the image of an item whose fetch succeeded is images/ followed by
\* the sanitized SKU (the hash of the URL for an empty SKU) and by the
\* extension of the URL's path or, if the path has none, the extension that
\* the content type of the fetched response names, .jpg by default.
C22_NameAndExtension ==
    \A i \in DOMAIN items :
        LET it == items[i]
            l  == LogOf(log, i)
        IN  it.image # <<>> /\ l # <<>> =>
                it.image = <<"i","m","a","g","e","s","/">>
                    \o (IF it.sku # <<>> THEN Sanitize(it.sku, FALSE) ELSE md5(it.remoteImage))
                    \o (IF PathExt(it.remoteImage) # <<>> THEN PathExt(it.remoteImage)
                        ELSE ByContentType(toLowerCase(l[Len(l)].res.ct)))

\* C23: when the first run has written the catalog, the image of every
\* item names a file under public/images that holds a body of at least 256
\* bytes fetched from that item's own candidate URL.
C23_OwnImage ==
    phase = "done" /\ runNo = 1 =>
        \A i \in DOMAIN out :
            out[i].image # <<>> =>
                \E f \in files :
                    /\ out[i].image = <<"i","m","a","g","e","s","/">> \o f.name
                    /\ f.size >= MIN_BYTES
                    /\ f.src = items[i].remoteImage

====
